---- MODULE Spec2Model ----
(***************************************************************************)
(* NewsTrace scraper (Backend/scrapper.py): the run of main() from the     *)
(* placeholder snapshot through detection, crawl, per-page aggregation,    *)
(* progress checkpoints and the final snapshot, with the snapshot writer   *)
(* _atomic_write_json modelled step by step, and the pure helpers          *)
(* normalize_name and _prefer_newer modelled on character sequences.       *)
(*                                                                         *)
(* A Python str is a sequence of one-character strings.                    *)
(***************************************************************************)
EXTENDS Integers, Sequences, FiniteSets, TLC

\* ------------------------------------------------------------------ bounds
\* Article URLs the crawler may return in one run.
MaxPages == 6
\* I/O errors (OSError in mkstemp/write/replace/open) the environment may raise in one run.
MaxFaults == 2
\* Pieces in which a serialised snapshot reaches a file.
MaxChunks == 2
\* Seeds of the crawl (11 in line 322).
MaxSeeds == 2
\* The cap on collected article URLs (800 in line 34).
MAX_ARTICLE_URLS == 3

\* --------------------------------------------------------- program constants
WRITE_PROGRESS_EVERY == 5
min_profiles == 30

\* ------------------------------------------------------------------ strings
LowerLetters == <<"a","b","c","d","e","f","g","h","i","j","k","l","m",
                  "n","o","p","q","r","s","t","u","v","w","x","y","z">>
UpperLetters == <<"A","B","C","D","E","F","G","H","I","J","K","L","M",
                  "N","O","P","Q","R","S","T","U","V","W","X","Y","Z">>
Digits == <<"0","1","2","3","4","5","6","7","8","9">>

\* U+200B, one of the zero-width characters removed by normalize_name.
ZWSP == "<200b>"

\* The characters of the model in code-point order (Python compares str by code point).
CharOrder == <<" ", "(", ")", "*", ",", "-", ".", "/">> \o Digits
             \o <<":">> \o UpperLetters \o <<"[", "]">> \o LowerLetters \o <<ZWSP>>

Range(f) == {f[i] : i \in DOMAIN f}

\* The element of a one-element set: The({e(x) : x \in {v}}) is e(v), with v
\* evaluated once.
The(S) == CHOOSE v \in S : TRUE
IndexIn(seq, c) == CHOOSE i \in DOMAIN seq : seq[i] = c
Ord(c) == IndexIn(CharOrder, c)

IsLower(c) == c \in Range(LowerLetters)
IsUpper(c) == c \in Range(UpperLetters)
IsCased(c) == IsLower(c) \/ IsUpper(c)
IsDigit(c) == c \in Range(Digits)
IsSpace(c) == c = " "
DigitVal(c) == IndexIn(Digits, c) - 1

LowerChar(c) == IF IsUpper(c) THEN LowerLetters[IndexIn(UpperLetters, c)] ELSE c
UpperChar(c) == IF IsLower(c) THEN UpperLetters[IndexIn(LowerLetters, c)] ELSE c

\* str.lower()
Lower(s) == [i \in DOMAIN s |-> LowerChar(s[i])]

\* str.title(): a cased character is upper-cased after an uncased one (or at the
\* start) and lower-cased after a cased one.
Title(s) == [i \in DOMAIN s |->
               IF i = 1 \/ ~IsCased(s[i - 1]) THEN UpperChar(s[i]) ELSE LowerChar(s[i])]

RECURSIVE LStrip(_)
LStrip(s) == IF s # <<>> /\ IsSpace(Head(s)) THEN LStrip(Tail(s)) ELSE s

RECURSIVE RStrip(_)
RStrip(s) == IF s # <<>> /\ IsSpace(s[Len(s)]) THEN RStrip(SubSeq(s, 1, Len(s) - 1)) ELSE s

\* str.strip()
Strip(s) == RStrip(LStrip(s))

\* Python's lexicographic str comparison a < b.
RECURSIVE StrLess(_, _)
StrLess(a, b) ==
    IF b = <<>> THEN FALSE
    ELSE IF a = <<>> THEN TRUE
    ELSE IF Head(a) = Head(b) THEN StrLess(Tail(a), Tail(b))
    ELSE Ord(Head(a)) < Ord(Head(b))

\* ------------------------------------------------------------ normalize_name
\* re.sub(r'^(By[:\s]+)', '', s, flags=re.I)
RECURSIVE DropColonSpace(_)
DropColonSpace(s) ==
    IF s # <<>> /\ (Head(s) = ":" \/ IsSpace(Head(s))) THEN DropColonSpace(Tail(s)) ELSE s

StripByPrefix(s) ==
    IF /\ Len(s) >= 3
       /\ LowerChar(s[1]) = "b"
       /\ LowerChar(s[2]) = "y"
       /\ (s[3] = ":" \/ IsSpace(s[3]))
    THEN DropColonSpace(SubSeq(s, 3, Len(s)))
    ELSE s

\* re.sub(r'[\u200b\u200c\u200d]', '', s)
RemoveZeroWidth(s) == SelectSeq(s, LAMBDA c : c # ZWSP)

\* re.sub(r'[\.\,\/\(\)\[\]\*...]', ' ', s): the members of the class that the
\* model's alphabet holds (the quote characters of the class are not in it).
NamePunct == {".", ",", "/", "(", ")", "[", "]", "*"}
PunctToSpace(s) == [i \in DOMAIN s |-> IF s[i] \in NamePunct THEN " " ELSE s[i]]

\* re.sub(r'\s+', ' ', s)
RECURSIVE CollapseSpaces(_)
CollapseSpaces(s) ==
    IF s = <<>> THEN <<>>
    ELSE IF IsSpace(Head(s)) /\ Len(s) >= 2 /\ IsSpace(s[2]) THEN CollapseSpaces(Tail(s))
    ELSE <<Head(s)>> \o CollapseSpaces(Tail(s))

\* Lines 66-68
TitleIfName(s) == IF Len(s) <= 1 THEN <<>> ELSE Title(s)

\* Lines 59-68, one line of the function per stage, innermost first.
normalize_name(name) ==
    IF name = <<>> THEN <<>>
    ELSE The({TitleIfName(s5) :
              s5 \in {Strip(CollapseSpaces(s4)) :
              s4 \in {PunctToSpace(s3) :
              s3 \in {RemoveZeroWidth(s2) :
              s2 \in {StripByPrefix(s1) :
              s1 \in {Strip(name)}}}}}})

\* ------------------------------------------------------------- _prefer_newer
Unknown == <<"U","n","k","n","o","w","n">>

\* The character at position k of d, or "" past its end.
At(d, k) == IF k \in 1..Len(d) THEN d[k] ELSE ""
IsDateSep(c) == c = "-" \/ c = "/"

RECURSIVE ToInt(_)
ToInt(ds) == IF ds = <<>> THEN 0 ELSE 10 * ToInt(SubSeq(ds, 1, Len(ds) - 1)) + DigitVal(ds[Len(ds)])

\* Length of the month group of (\d{4})[-/](\d{1,2})[-/](\d{1,2}) matched at i, 0 when
\* the pattern does not match at i.
MonthLenAt(d, i) ==
    IF ~(/\ IsDigit(At(d, i)) /\ IsDigit(At(d, i + 1)) /\ IsDigit(At(d, i + 2))
         /\ IsDigit(At(d, i + 3)) /\ IsDateSep(At(d, i + 4)) /\ IsDigit(At(d, i + 5)))
    THEN 0
    ELSE IF IsDigit(At(d, i + 6)) /\ IsDateSep(At(d, i + 7)) /\ IsDigit(At(d, i + 8)) THEN 2
    ELSE IF IsDateSep(At(d, i + 6)) /\ IsDigit(At(d, i + 7)) THEN 1
    ELSE 0

IsLeap(y) == (y % 4 = 0 /\ y % 100 # 0) \/ y % 400 = 0
DaysInMonth(y, m) ==
    IF m = 2 THEN (IF IsLeap(y) THEN 29 ELSE 28)
    ELSE IF m \in {4, 6, 9, 11} THEN 30 ELSE 31

\* datetime.date(y, m, d) raises ValueError outside these ranges.
ValidDate(y, m, d) ==
    /\ y \in 1..9999
    /\ m \in 1..12
    /\ d >= 1 /\ d <= DaysInMonth(y, m)

NoDate == [ok |-> FALSE, y |-> 0, m |-> 0, d |-> 0]

\* parse_iso: re.search takes the leftmost match; a match that is no calendar date
\* gives None.
\* Lines 78-82 for the match at i whose month group has ml characters.
DateOfMatch(d, i, ml) ==
    LET ds == i + 5 + ml + 1
        dl == IF IsDigit(At(d, ds + 1)) THEN 2 ELSE 1
    IN  The({IF ValidDate(y, mn, dd) THEN [ok |-> TRUE, y |-> y, m |-> mn, d |-> dd]
             ELSE NoDate :
                y  \in {ToInt(SubSeq(d, i, i + 3))},
                mn \in {ToInt(SubSeq(d, i + 5, i + 4 + ml))},
                dd \in {ToInt(SubSeq(d, ds, ds + dl - 1))}})

parse_iso(d) ==
    The({IF hits = {} THEN NoDate
         ELSE The({DateOfMatch(d, i, MonthLenAt(d, i)) :
                   i \in {CHOOSE h \in hits : \A g \in hits : h <= g}}) :
            hits \in {{i \in 1..Len(d) : MonthLenAt(d, i) > 0}}})

\* Variant: the comparison of line 88 written cd >= ed.
DateGreaterOrEqual(cd, ed) ==
    \/ cd.y > ed.y
    \/ cd.y = ed.y /\ cd.m > ed.m
    \/ cd.y = ed.y /\ cd.m = ed.m /\ cd.d >= ed.d

\* datetime.date comparison cd > ed
DateGreater(cd, ed) ==
    \/ cd.y > ed.y
    \/ cd.y = ed.y /\ cd.m > ed.m
    \/ cd.y = ed.y /\ cd.m = ed.m /\ cd.d > ed.d

_prefer_newer(existing_date, candidate_date) ==
    IF candidate_date = <<>> \/ candidate_date = Unknown THEN FALSE
    ELSE IF existing_date = <<>> \/ existing_date = Unknown THEN TRUE
    ELSE \E cd \in {parse_iso(candidate_date)}, ed \in {parse_iso(existing_date)} :
            IF cd.ok /\ ed.ok THEN DateGreater(cd, ed)
            ELSE Len(candidate_date) > Len(existing_date)

\* Date strings as pages carry them: a calendar triple written in one of three
\* styles, or free text without a year-month-day occurrence.
Chr(n) == Digits[n + 1]
Pad2(n) == <<Chr(n \div 10), Chr(n % 10)>>
Bare(n) == IF n >= 10 THEN Pad2(n) ELSE <<Chr(n)>>
Year4(y) == <<Chr(y \div 1000), Chr((y \div 100) % 10), Chr((y \div 10) % 10), Chr(y % 10)>>

FormatDate(y, m, d, style) ==
    IF style = "iso" THEN Year4(y) \o <<"-">> \o Pad2(m) \o <<"-">> \o Pad2(d)
    ELSE IF style = "slash" THEN Year4(y) \o <<"/">> \o Bare(m) \o <<"/">> \o Bare(d)
    ELSE Year4(y) \o <<"-">> \o Pad2(m) \o <<"-">> \o Pad2(d)
         \o <<"T","1","0",":","3","0",":","0","0">>

DateStyles == {"iso", "slash", "stamp"}
DatedCases ==
    {[text |-> FormatDate(y, m, d, st), dated |-> TRUE, y |-> y, m |-> m, d |-> d] :
        y \in {2023, 2024}, m \in {2, 11, 13}, d \in {5, 29, 30}, st \in DateStyles}
FreeTexts == {<<>>, Unknown, <<"M","a","y"," ","5">>,
              <<"y","e","s","t","e","r","d","a","y"," ","a","t"," ","n","o","o","n">>}
UndatedCases == {[text |-> t, dated |-> FALSE, y |-> 0, m |-> 0, d |-> 0] : t \in FreeTexts}
DateCases == DatedCases \cup UndatedCases

\* ------------------------------------------------------------------- state
VARIABLES
    argv,           \* sys.argv[1]: [present, value]
    site,           \* the pages the outlet's site serves, as extracted metadata
    pc,             \* position of the scraper process
    exit_status,    \* process exit status, -1 while it runs or when it was killed
    file,           \* data.json: [exists, data]
    tmp,            \* the .tmp_data_ file of the write in progress: [exists, data]
    wpc,            \* position inside _atomic_write_json
    wobj,           \* obj argument of the write in progress
    wprev,          \* data.json as it was when the write in progress was called
    wlog,           \* calls of _atomic_write_json so far: [kind, obj, result]
    faults,         \* I/O errors raised so far
    net_used,       \* whether any network request was issued
    detected,       \* result of detect_website
    urls,           \* number of URLs returned by find_article_links (URL i is i)
    idx,            \* position of the for loop of extract_profiles in urls
    page,           \* metadata extracted from the page fetched last
    profiles_map,   \* key -> entry
    processed,      \* pages processed without an exception
    final_profiles, \* return value of extract_profiles
    credited,       \* per key: pages fetched that credit it, their beats, dates and titles
    call,           \* one application of a pure helper: arguments and result
    last,           \* the loop of extract_profiles, URL tried last: [robots, fetch]
    response,       \* what api_scrape returned: [sent, data]
    to_visit,       \* find_article_links: the queue
    seen,           \* find_article_links: the visited set
    article_links,  \* find_article_links: the result set
    links,          \* the list find_article_links returned
    crawl_log,      \* find_article_links: URLs taken from the queue: [url, robots, fetch]
    other_pc        \* position of the scraper run a second request to api_scrape started

crawlVars == <<to_visit, seen, article_links, links, crawl_log>>

vars == <<argv, site, pc, exit_status, file, tmp, wpc, wobj, wprev, wlog, faults, net_used,
          detected, urls, idx, page, profiles_map, processed, final_profiles, credited,
          call, last, response, other_pc, crawlVars>>

\* OUTLET = sys.argv[1].strip() if len(sys.argv) > 1 else None
OUTLET == IF argv.present THEN [none |-> FALSE, s |-> Strip(argv.value)]
          ELSE [none |-> TRUE, s |-> <<>>]

\* Variant: line 442 written `if OUTLET is None`.
NoOutletIsNone == OUTLET.none

\* `not OUTLET`
NoOutlet == OUTLET.none \/ OUTLET.s = <<>>

\* ------------------------------------------------------- snapshot file model
NoFile == [exists |-> FALSE, data |-> <<>>]

\* json.dump(obj, f): the text reaches the file in MaxChunks pieces.
Dumps(obj) == [i \in 1..MaxChunks |-> [part |-> i, of |-> obj]]

\* json.load(f): only the whole text of one object parses.
Loads(data) ==
    IF Len(data) = MaxChunks /\ \A i \in 1..MaxChunks : data[i] = [part |-> i, of |-> data[1].of]
    THEN [ok |-> TRUE, obj |-> data[1].of]
    ELSE [ok |-> FALSE, obj |-> <<>>]

Parses(f) == f.exists /\ Loads(f.data).ok

\* A snapshot left by an earlier run.
OldProfile == [name |-> <<"E","d">>, beat |-> "World", latest_article |-> "Old story",
               article_url |-> 0, publication_date |-> <<"2","0","2","3">>,
               articles_count |-> 1]
OldSnapshot == [outlet_name |-> <<"O","l","d">>, website |-> "https://old.example",
                profiles |-> <<OldProfile>>, note |-> FALSE]
OldFile == [exists |-> TRUE, data |-> Dumps(OldSnapshot)]

NoPage == [url |-> 0, authors |-> <<>>, title |-> "", pub_date |-> <<>>, section |-> ""]
NoCall == [fn |-> "none"]
NoAttempt == [robots |-> "none", fetch |-> "none"]
NoResponse == [sent |-> FALSE, data |-> <<>>]

\* ------------------------------------------------------------------ robots
\* What reading and asking the robots.txt of a URL's domain comes to.
RobotsOutcomes == {"allows", "disallows", "raises"}

\* Variant: line 101 returning False.
allowed_by_robots_FailClosed(outcome) == outcome = "allows"

\* Lines 93-102: can_fetch, and True when anything raises.
allowed_by_robots(outcome) == IF outcome = "raises" THEN TRUE ELSE outcome = "allows"

\* ------------------------------------------------------------- aggregation
\* dict.get(section, 0) + 1 on a dict kept in insertion order.
BumpBeat(bc, section) ==
    IF \E i \in DOMAIN bc : bc[i].beat = section
    THEN [i \in DOMAIN bc |-> IF bc[i].beat = section
                              THEN [bc[i] EXCEPT !.n = @ + 1] ELSE bc[i]]
    ELSE Append(bc, [beat |-> section, n |-> 1])

\* Lines 387-395: the entry of a name seen for the first time.
NewEntry(norm, pg) ==
    [name             |-> norm,
     beat_counts      |-> IF pg.section # "" THEN <<[beat |-> pg.section, n |-> 1]>> ELSE <<>>,
     has_beat_counts  |-> TRUE,
     beat             |-> IF pg.section # "" THEN pg.section ELSE "Unknown",
     latest_article   |-> IF pg.title # "" THEN pg.title ELSE "Unknown",
     article_url      |-> pg.url,
     publication_date |-> IF pg.pub_date # <<>> THEN pg.pub_date ELSE Unknown,
     articles_count   |-> 1]

\* Variant: line 401 without lines 402-403.
UpdateLatestDateOnly(entry, pg) ==
    IF _prefer_newer(entry.publication_date, pg.pub_date)
    THEN [entry EXCEPT !.publication_date = pg.pub_date]
    ELSE entry

\* Variant: lines 401-403 putting a new entry in the place of the old one.
UpdateLatestAsNewEntry(entry, pg) ==
    IF _prefer_newer(entry.publication_date, pg.pub_date)
    THEN NewEntry(entry.name, pg)
    ELSE entry

\* Lines 400-403: the latest article of an entry after one more observation.
UpdateLatest(entry, pg) ==
    IF _prefer_newer(entry.publication_date, pg.pub_date)
    THEN [entry EXCEPT !.publication_date = pg.pub_date,
                       !.latest_article = pg.title,
                       !.article_url = pg.url]
    ELSE entry

\* Lines 397-403 for an existing entry: [entry, raised]. entry['beat_counts'] raises
\* KeyError once _finalize_profiles has popped it, after articles_count was raised.
MergeExisting(entry, pg) ==
    The({IF pg.section # "" /\ ~e1.has_beat_counts
         THEN [entry |-> e1, raised |-> TRUE]
         ELSE The({[entry |-> UpdateLatest(e2, pg), raised |-> FALSE] :
                   e2 \in {IF pg.section # ""
                           THEN [e1 EXCEPT !.beat_counts = BumpBeat(@, pg.section)]
                           ELSE e1}}) :
            e1 \in {[entry EXCEPT !.articles_count = @ + 1]}})

\* Lines 380-403: the loop over the authors of one page, from author i on:
\* [map, raised]. An exception leaves the loop (line 411).
\* Lines 381-403 for one author: [map, raised].
MergeAuthor(map, pg, norm, key) ==
    IF norm = <<>> THEN [map |-> map, raised |-> FALSE]
    ELSE IF key \notin DOMAIN map
    THEN [map |-> (key :> NewEntry(norm, pg)) @@ map, raised |-> FALSE]
    ELSE The({[map |-> [map EXCEPT ![key] = r.entry], raised |-> r.raised] :
              r \in {MergeExisting(map[key], pg)}})

RECURSIVE MergeAuthors(_, _, _)
MergeAuthors(map, pg, i) ==
    IF i > Len(pg.authors) THEN [map |-> map, raised |-> FALSE]
    ELSE The({IF r.raised THEN r ELSE MergeAuthors(r.map, pg, i + 1) :
              r \in {The({MergeAuthor(map, pg, norm, Lower(norm)) :
                          norm \in {normalize_name(pg.authors[i])}})}})

\* --------------------------------------------------------- _finalize_profiles
blacklist == {<<"c","o","n","t","r","i","b","u","t","o","r","s">>, <<"s","t","a","f","f">>,
              <<"e","d","i","t","o","r","i","a","l">>, <<"t","e","a","m">>,
              <<"u","n","k","n","o","w","n">>, <<"s">>}

\* Variant: line 420 without .lower().
BlacklistedCaseSensitive(v) ==
    LET name_low == Strip(v.name)
    IN  name_low = <<>> \/ name_low \in blacklist

\* Lines 420-421
Blacklisted(v) ==
    LET name_low == Lower(Strip(v.name))
    IN  name_low = <<>> \/ name_low \in blacklist

\* max(beat_counts.items(), key=count)[0]: the first item, in insertion order, of
\* the largest count.
BestBeat(bc) ==
    LET i == CHOOSE j \in DOMAIN bc :
                 /\ \A k \in DOMAIN bc : bc[k].n <= bc[j].n
                 /\ \A k \in 1..(j - 1) : bc[k].n < bc[j].n
    IN  bc[i].beat

\* Lines 423-426: what the loop does to the entry v of the map itself.
Finalized(v) ==
    [v EXCEPT !.beat = IF v.has_beat_counts /\ v.beat_counts # <<>>
                       THEN (IF BestBeat(v.beat_counts) # "" THEN BestBeat(v.beat_counts)
                             ELSE "Unknown")
                       ELSE @,
              !.beat_counts = <<>>,
              !.has_beat_counts = FALSE]

\* Lines 427-434
Profile(v) ==
    [name             |-> v.name,
     beat             |-> v.beat,
     latest_article   |-> IF v.latest_article # "" THEN v.latest_article ELSE "Unknown",
     article_url      |-> v.article_url,
     publication_date |-> v.publication_date,
     articles_count   |-> v.articles_count]

\* Variant: the sort key of line 435 without the count.
SortsBeforeByName(a, b) == StrLess(a.name, b.name)

\* The sort key of line 435: (-articles_count, name).
SortsBefore(a, b) ==
    \/ a.articles_count > b.articles_count
    \/ a.articles_count = b.articles_count /\ StrLess(a.name, b.name)

\* list.sort on entries of distinct names.
SortProfiles(ps) ==
    The({The({[i \in 1..Cardinality(s) |-> CHOOSE p \in s : before[p] = i - 1] :
              before \in {[p \in s |-> Cardinality({q \in s : SortsBefore(q, p)})]}}) :
         s \in {ps}})

Max(a, b) == IF a >= b THEN a ELSE b

\* seq[:n]
Slice(seq, n) == SubSeq(seq, 1, IF n < Len(seq) THEN n ELSE Len(seq))

\* _finalize_profiles(profiles_map): the list returned and the map, whose kept
\* entries the function changes in place.
_finalize_profiles(map) ==
    The({[profiles |-> Slice(sorted, Max(30, Len(sorted))), map |-> newmap] :
            newmap \in {[k \in DOMAIN map |->
                           IF Blacklisted(map[k]) THEN map[k] ELSE Finalized(map[k])]},
            sorted \in {SortProfiles({Profile(Finalized(map[k])) :
                                         k \in {j \in DOMAIN map : ~Blacklisted(map[j])}})}})

\* ------------------------------------------------------- find_article_links
\* A URL is [host, path, query]; host, path and query are strings, the query
\* without its question mark.
Url(host, path, query) == [host |-> host, path |-> path, query |-> query]

\* x in s, for strings
Contains(x, s) == \E i \in 0..(Len(s) - Len(x)) : SubSeq(s, i + 1, i + Len(x)) = x

\* full.split('?')[0]
StripQuery(u) == [u EXCEPT !.query = <<>>]

\* re.search(r'/\d{4}/\d{1,2}/\d{1,2}/', path)
DigitsThenSlash(path, i, n) ==
    /\ \A k \in i..(i + n - 1) : IsDigit(At(path, k))
    /\ At(path, i + n) = "/"

HasDatePath(path) ==
    \E i \in 1..Len(path) : \E m \in 1..2 : \E d \in 1..2 :
        /\ path[i] = "/"
        /\ DigitsThenSlash(path, i + 1, 4)
        /\ DigitsThenSlash(path, i + 6, m)
        /\ DigitsThenSlash(path, i + 7 + m, d)

ArticleWords == {<<"/", "a", "r", "t", "i", "c", "l", "e">>,
                 <<"/", "n", "e", "w", "s", "/">>,
                 <<"/", "s", "t", "o", "r", "y">>,
                 <<"/", "o", "p", "i", "n", "i", "o", "n">>,
                 <<"/", "f", "e", "a", "t", "u", "r", "e">>,
                 <<"/", "a", "n", "a", "l", "y", "s", "i", "s">>,
                 <<"/", "r", "e", "p", "o", "r", "t", "s">>,
                 <<"/", "s", "p", "o", "r", "t">>,
                 <<"/", "s", "p", "o", "r", "t", "s">>}

IndexWords == {<<"/", "a", "u", "t", "h", "o", "r">>,
               <<"/", "a", "u", "t", "h", "o", "r", "s">>,
               <<"/", "s", "t", "a", "f", "f">>,
               <<"/", "c", "o", "n", "t", "r", "i", "b", "u", "t", "o", "r", "s">>,
               <<"/", "p", "r", "o", "f", "i", "l", "e">>}

\* Line 347, on the lower-cased path
IsArticlePath(path) == HasDatePath(path) \/ \E x \in ArticleWords : Contains(x, path)

\* path.strip('/')
RECURSIVE StripSlashes(_)
StripSlashes(path) ==
    IF path = <<>> THEN path
    ELSE IF Head(path) = "/" THEN StripSlashes(Tail(path))
    ELSE IF path[Len(path)] = "/" THEN StripSlashes(SubSeq(path, 1, Len(path) - 1))
    ELSE path

\* len(path.strip('/').split('/'))
Depth(path) == Cardinality({i \in DOMAIN StripSlashes(path) : StripSlashes(path)[i] = "/"}) + 1

\* Line 350, on the lower-cased path
IsIndexPath(path) == (\E x \in IndexWords : Contains(x, path)) \/ Depth(path) <= 3

\* Line 344: `domain not in p.netloc.lower()`
OffDomain(domain, u) == ~Contains(domain, Lower(u.host))

\* Lines 338-352: the anchors of a fetched page from anchor i on, in document order:
\* [links, queue]. urljoin(url, href) of an absolute href is the href.
RECURSIVE ScanAnchors(_, _, _, _, _, _)
ScanAnchors(anchors, i, domain, visited, found, queue) ==
    IF i > Len(anchors) THEN [links |-> found, queue |-> queue]
    ELSE The({IF OffDomain(domain, full) THEN ScanAnchors(anchors, i + 1, domain, visited,
                                                          found, queue)
              ELSE The({ScanAnchors(anchors, i + 1, domain, visited,
                            IF IsArticlePath(path) THEN found \cup {StripQuery(full)}
                            ELSE found,
                            IF IsIndexPath(path) /\ full \notin visited
                            THEN Append(queue, full) ELSE queue) :
                        path \in {Lower(full.path)}}) :
              full \in {anchors[i]}})

\* Line 322
AllSeeds == <<<<>>,
            <<"/", "n", "e", "w", "s">>,
            <<"/", "l", "a", "t", "e", "s", "t">>,
            <<"/", "w", "o", "r", "l", "d">>,
            <<"/", "a", "r", "t", "i", "c", "l", "e", "s">>,
            <<"/", "s", "e", "c", "t", "i", "o", "n">>,
            <<"/", "t", "o", "p", "i", "c", "s">>,
            <<"/", "a", "u", "t", "h", "o", "r">>,
            <<"/", "a", "u", "t", "h", "o", "r", "s">>,
            <<"/", "c", "o", "n", "t", "r", "i", "b", "u", "t", "o", "r", "s">>,
            <<"/", "s", "t", "a", "f", "f">>>>

\* The seeds the crawl starts with: the first MaxSeeds of line 322.
seeds == SubSeq(AllSeeds, 1, MaxSeeds)

\* ------------------------------------------------------------- a small web
Host == [home      |-> <<"w", "w", "w", ".", "t", "h", ".", "c", "o", "m">>,
         shouted   |-> <<"W", "W", "W", ".", "T", "H", ".", "C", "O", "M">>,
         lookalike |-> <<"w", "w", "w", ".", "t", "h", ".", "c", "o", "m", ".", "i", "o">>,
         elsewhere |-> <<"c", "d", "n", ".", "i", "o">>]

\* urlparse(base_url) of the base URL detect_website returns (Website).
BaseUrl == Url(Host.home, <<>>, <<>>)

\* urljoin(base_url, s) for a seed s: the base URL itself for '', else the path s.
SeedUrl(s) == Url(BaseUrl.host, s, <<>>)

\* The URLs of the web, by the name of the page.
Web == [front   |-> BaseUrl,
        news    |-> Url(Host.home, <<"/", "n", "e", "w", "s">>, <<>>),
        story1  |-> Url(Host.home, <<"/", "n", "e", "w", "s", "/", "a", "1">>, <<>>),
        story1q |-> Url(Host.home, <<"/", "n", "e", "w", "s", "/", "a", "1">>, <<"u", "=", "1">>),
        story2  |-> Url(Host.shouted, <<"/", "S", "p", "o", "r", "t", "/", "s", "2">>, <<>>),
        dated   |-> Url(Host.home, <<"/", "2", "0", "2", "4", "/", "0", "2", "/", "0", "5", "/", "a", "3">>, <<>>),
        deep    |-> Url(Host.home, <<"/", "a", "/", "b", "/", "c", "/", "d">>, <<>>),
        staff   |-> Url(Host.home, <<"/", "s", "t", "a", "f", "f">>, <<>>),
        fake    |-> Url(Host.lookalike, <<"/", "n", "e", "w", "s", "/", "x">>, <<>>),
        abroad  |-> Url(Host.elsewhere, <<"/", "s", "t", "o", "r", "y", "/", "o">>, <<>>)]

\* The anchors, resolved, of the page each URL serves when it can be fetched.
Anchors(u) ==
    IF u = Web.front THEN <<Web.story1q, Web.story1, Web.abroad, Web.staff>>
    ELSE IF u = Web.news THEN <<Web.dated, Web.deep, Web.story1, Web.fake, Web.story2>>
    ELSE IF u = Web.staff THEN <<Web.story2, Web.front, Web.news>>
    ELSE IF u = Web.fake THEN <<Web.abroad, Web.story2>>
    ELSE <<>>

\* ------------------------------------------------------------------ inputs
ArgvInputs == {[present |-> FALSE, value |-> <<>>],
               [present |-> TRUE,  value |-> <<>>],
               [present |-> TRUE,  value |-> <<" ">>],
               [present |-> TRUE,  value |-> <<" ","T","H"," ">>]}

Website == "https://www.th.com"

\* What extract_authors, extract_title, extract_pub_date and extract_section with
\* normalize_beat return for a page.
StubPage(authors, title, section, pub_date) ==
    [authors |-> authors, title |-> title, section |-> section, pub_date |-> pub_date]

Al == <<"A","l">>
Bo == <<"B","o">>

\* A site of two authors with one beat each.
PlainSite ==
    {StubPage(<<Al>>, "Cup final", "Sports", FormatDate(2024, 2, 5, "iso")),
     StubPage(<<Bo>>, "Budget vote", "Politics", Unknown)}

\* A site all of whose pages carry the same byline.
SoloSite == {StubPage(<<Al>>, "Cup final", "Sports", Unknown)}

\* One author writing on two beats at different dates, and a second author.
BeatsSite ==
    {StubPage(<<Al>>, "Cup final", "Sports", FormatDate(2024, 2, 5, "iso")),
     StubPage(<<Al>>, "Budget vote", "Politics", FormatDate(2024, 11, 30, "slash")),
     StubPage(<<Bo>>, "Poll", "Politics", FormatDate(2023, 11, 5, "stamp"))}

\* Bylines that differ as strings and name the same person, a page of two authors,
\* and a byline that names no person.
BylinesSite ==
    {StubPage(<<<<"A","L">>, <<"b","y",":"," ","a","l",".">>>>, "Derby", "Sports", Unknown),
     StubPage(<<Bo, Al>>, "Poll", "Politics", FormatDate(2023, 11, 5, "iso")),
     StubPage(<<<<"S","t","a","f","f",".">>>>, "", "Politics", FormatDate(2024, 2, 5, "iso"))}

\* Pages without author, title or date, next to a dated page.
SparseSite ==
    {StubPage(<<Unknown>>, "Notice", "Unknown", <<>>),
     StubPage(<<<<"C","y">>>>, "", "Sports", <<"M","a","y"," ","5">>),
     StubPage(<<<<"C","y">>, <<"x">>>>, "Recap", "Sports", FormatDate(2024, 2, 30, "iso"))}

\* A page crediting min_profiles authors (Aa .. Az, Ba .. Bd), and a page of one.
Masthead == [i \in 1..min_profiles |->
                IF i <= 26 THEN <<"A", LowerLetters[i]>> ELSE <<"B", LowerLetters[i - 26]>>]
CrowdSite ==
    {StubPage(Masthead, "Who we are", "News", Unknown),
     StubPage(<<Al>>, "Cup final", "Sports", FormatDate(2024, 2, 5, "iso"))}

StubSites == {BeatsSite, BylinesSite, SparseSite, CrowdSite}

\* ------------------------------------------------------- _atomic_write_json
Payload(website, profiles, note) ==
    [outlet_name |-> OUTLET.s, website |-> website, profiles |-> profiles, note |-> note]

\* Variant: lines 446-451 without the "_note" key.
PlaceholderWithoutNote == Payload("", <<>>, FALSE)

\* Lines 446-451
PlaceholderPayload == Payload("", <<>>, TRUE)
\* Line 408
ProgressPayload(base_url, profiles) == Payload(base_url, profiles, FALSE)
\* Variant: lines 457-461 with the "_note" key of the placeholder kept.
FinalPayloadWithNote(website, profiles) == Payload(website, profiles, TRUE)

\* Lines 457-461
FinalPayload(website, profiles) == Payload(website, profiles, FALSE)

\* The call _atomic_write_json(data_file, obj) made at position `at`.
CallWrite(at, obj) ==
    /\ pc' = at
    /\ wpc' = "mkstemp"
    /\ wobj' = obj
    /\ wprev' = file
    /\ wlog' = Append(wlog, [kind |-> at, obj |-> obj, result |-> "running"])

\* Where the caller goes on after the write at position pc returned.
AfterWrite == IF pc = "placeholder" THEN "detect"
              ELSE IF pc = "progress" THEN "loop"
              ELSE "summary"

ReturnFromWrite(result) ==
    /\ wpc' = "idle"
    /\ pc' = AfterWrite
    /\ idx' = IF pc = "progress" THEN idx + 1 ELSE idx
    /\ wlog' = [wlog EXCEPT ![Len(wlog)].result = result]

writing == pc \in {"placeholder", "progress", "final"}

runVars == <<argv, site, exit_status, net_used, detected, urls, page, profiles_map, processed,
             final_profiles, credited, call, last, response, other_pc, crawlVars>>

\* Line 45: tempfile.mkstemp creates an empty temporary file.
Mkstemp ==
    /\ writing /\ wpc = "mkstemp"
    /\ tmp' = [exists |-> TRUE, data |-> <<>>]
    /\ wpc' = "tmp_dump"
    /\ UNCHANGED <<pc, idx, file, wobj, wprev, wlog, faults, runVars>>

\* Lines 46-49: json.dump, flush and fsync into the temporary file.
TmpDump ==
    /\ writing /\ wpc = "tmp_dump"
    /\ tmp' = [tmp EXCEPT !.data = Append(@, Dumps(wobj)[Len(@) + 1])]
    /\ wpc' = IF Len(tmp.data) + 1 = MaxChunks THEN "replace" ELSE "tmp_dump"
    /\ UNCHANGED <<pc, idx, file, wobj, wprev, wlog, faults, runVars>>

\* Line 50: os.replace puts the temporary file in the place of data.json in one step.
Replace ==
    /\ writing /\ wpc = "replace"
    /\ file' = tmp
    /\ tmp' = NoFile
    /\ ReturnFromWrite("atomic")
    /\ UNCHANGED <<wobj, wprev, faults, runVars>>

\* Line 51: mkstemp, a write, fsync or os.replace raises; the except branch runs next.
\* The temporary file left behind is never read again.
TmpPathRaises ==
    /\ writing /\ wpc \in {"mkstemp", "tmp_dump", "replace"}
    /\ faults < MaxFaults
    /\ faults' = faults + 1
    /\ tmp' = NoFile
    /\ wpc' = "fb_open"
    /\ UNCHANGED <<pc, idx, file, wobj, wprev, wlog, runVars>>

\* Line 53: open(path, 'w') creates or truncates data.json.
FallbackOpen ==
    /\ writing /\ wpc = "fb_open"
    /\ file' = [exists |-> TRUE, data |-> <<>>]
    /\ wpc' = "fb_dump"
    /\ UNCHANGED <<pc, idx, tmp, wobj, wprev, wlog, faults, runVars>>

\* Line 54: json.dump straight into data.json.
FallbackDump ==
    /\ writing /\ wpc = "fb_dump"
    /\ file' = [file EXCEPT !.data = Append(@, Dumps(wobj)[Len(@) + 1])]
    /\ IF Len(file.data) + 1 = MaxChunks
       THEN ReturnFromWrite("direct")
       ELSE UNCHANGED <<pc, idx, wpc, wlog>>
    /\ UNCHANGED <<tmp, wobj, wprev, faults, runVars>>

\* Lines 55-56: the direct write raises too and the error is swallowed.
FallbackRaises ==
    /\ writing /\ wpc \in {"fb_open", "fb_dump"}
    /\ faults < MaxFaults
    /\ faults' = faults + 1
    /\ ReturnFromWrite("failed")
    /\ UNCHANGED <<file, tmp, wobj, wprev, runVars>>

\* --------------------------------------------------------------------- main
wrVars == <<file, tmp, faults>>

\* Lines 442-444: sys.exit(2) is no Exception, so line 472 does not catch it.
UsageError ==
    /\ pc = "main" /\ NoOutlet
    /\ pc' = "exit"
    /\ exit_status' = 2
    /\ UNCHANGED <<argv, site, file, tmp, wpc, wobj, wprev, wlog, faults, net_used, detected,
                   urls, idx, page, profiles_map, processed, final_profiles, credited, call,
                   last, response, other_pc, crawlVars>>

\* Lines 446-452
WritePlaceholder ==
    /\ pc = "main" /\ ~NoOutlet
    /\ CallWrite("placeholder", PlaceholderPayload)
    /\ UNCHANGED <<wrVars, idx, runVars>>

\* Lines 453-456, detect_website returns a base URL.
DetectFound ==
    /\ pc = "detect"
    /\ net_used' = TRUE
    /\ detected' = Website
    /\ pc' = "crawl"
    /\ UNCHANGED <<argv, site, exit_status, file, tmp, wpc, wobj, wprev, wlog, faults, urls, idx,
                   page, profiles_map, processed, final_profiles, credited, call,
                   last, response, other_pc, crawlVars>>

\* Lines 453-462, detect_website returns None: extract_profiles is not called.
DetectNone ==
    /\ pc = "detect"
    /\ net_used' = TRUE
    /\ detected' = ""
    /\ final_profiles' = <<>>
    /\ CallWrite("final", FinalPayload("", <<>>))
    /\ UNCHANGED <<wrVars, argv, site, exit_status, urls, idx, page, profiles_map, processed,
                   credited, call,
                   last, response, other_pc, crawlVars>>

\* URL i of a list whose pages are not followed one by one.
ArticleUrl(i) == Url(Host.home, <<"/","n","e","w","s","/", Chr(i)>>, <<>>)

\* Line 359: find_article_links returns a list of distinct URLs.
FindArticleLinks ==
    /\ pc = "crawl"
    /\ \E n \in 0..MaxPages :
          /\ urls' = n
          /\ links' = [i \in 1..n |-> ArticleUrl(i)]
    /\ idx' = 1
    /\ pc' = "loop"
    /\ UNCHANGED <<argv, site, exit_status, file, tmp, wpc, wobj, wprev, wlog, faults, net_used,
                   detected, page, profiles_map, processed, final_profiles, credited, call,
                   last, response, other_pc, to_visit, seen, article_links, crawl_log>>

\* Variant: line 366 with a threshold of one profile.
InLoopUntilFirstProfile == pc = "loop" /\ idx <= urls /\ Cardinality(DOMAIN profiles_map) < 1

\* Lines 365-367
InLoop == pc = "loop" /\ idx <= urls /\ Cardinality(DOMAIN profiles_map) < min_profiles

\* Lines 369-370: robots.txt disallows the URL.
RobotsDisallow ==
    /\ InLoop
    /\ \E rb \in RobotsOutcomes :
          /\ ~allowed_by_robots(rb)
          /\ last' = [robots |-> rb, fetch |-> "none"]
    /\ idx' = idx + 1
    /\ UNCHANGED <<argv, site, pc, exit_status, file, tmp, wpc, wobj, wprev, wlog, faults,
                   net_used, detected, urls, page, profiles_map, processed, final_profiles,
                   credited, call, response, other_pc, crawlVars>>

\* Variant: the request of line 371 outside the try of line 368, so that its
\* exception reaches line 472.
FetchFailsUncaught ==
    /\ InLoop
    /\ \E rb \in RobotsOutcomes :
          /\ allowed_by_robots(rb)
          /\ last' = [robots |-> rb, fetch |-> "failed"]
    /\ pc' = "exit"
    /\ exit_status' = 1
    /\ UNCHANGED <<argv, site, file, tmp, wpc, wobj, wprev, wlog, faults, idx,
                   net_used, detected, urls, page, profiles_map, processed, final_profiles,
                   credited, call, response, other_pc, crawlVars>>

\* Lines 371-373 and 411-412: the request raises or the status is not 200.
FetchFails ==
    /\ InLoop
    /\ \E rb \in RobotsOutcomes :
          /\ allowed_by_robots(rb)
          /\ last' = [robots |-> rb, fetch |-> "failed"]
    /\ idx' = idx + 1
    /\ UNCHANGED <<argv, site, pc, exit_status, file, tmp, wpc, wobj, wprev, wlog, faults,
                   net_used, detected, urls, page, profiles_map, processed, final_profiles,
                   credited, call, response, other_pc, crawlVars>>

\* Lines 371-379: the page is fetched and its metadata extracted.
FetchPage ==
    /\ InLoop
    /\ \E p \in site :
          page' = [url |-> idx, authors |-> p.authors, title |-> p.title,
                   pub_date |-> p.pub_date, section |-> p.section]
    /\ \E rb \in RobotsOutcomes :
          /\ allowed_by_robots(rb)
          /\ last' = [robots |-> rb, fetch |-> "ok"]
    /\ pc' = "merge"
    /\ UNCHANGED <<argv, site, exit_status, file, tmp, wpc, wobj, wprev, wlog, faults, net_used,
                   detected, urls, idx, profiles_map, processed, final_profiles, credited,
                   call, response, other_pc, crawlVars>>

\* The key of each author string of a page, <<>> for a string that names nobody.
KeysOf(pg) == [i \in DOMAIN pg.authors |-> Lower(normalize_name(pg.authors[i]))]

\* The keys one page credits.
PageKeys(pg) == Range(KeysOf(pg)) \ {<<>>}

RECURSIVE BumpBeatTimes(_, _, _)
BumpBeatTimes(bc, section, n) ==
    IF n = 0 THEN bc ELSE BumpBeatTimes(BumpBeat(bc, section), section, n - 1)

\* What the pages fetched so far say of each key: the pages crediting it, the
\* beats observed for it, and the dates and titles of those pages.
NoCredit == [pages |-> 0, beats |-> <<>>, obs |-> {}]
Credit(cr, pg) ==
    LET old(k) == IF k \in DOMAIN cr THEN cr[k] ELSE NoCredit
    IN  The({[k \in DOMAIN cr \cup (Range(keys) \ {<<>>}) |->
                 IF k \in Range(keys)
                 THEN [pages |-> old(k).pages + 1,
                       beats |-> BumpBeatTimes(old(k).beats, pg.section,
                                     Cardinality({i \in DOMAIN keys : keys[i] = k})),
                       obs   |-> old(k).obs \cup {[pub_date |-> pg.pub_date,
                                                    title |-> pg.title]}]
                 ELSE old(k)] :
             keys \in {KeysOf(pg)}})

\* Lines 380-412: the authors of the page are merged; every WRITE_PROGRESS_EVERY
\* processed pages the map is finalized and written; an exception skips to the next URL.
MergePage ==
    /\ pc = "merge"
    /\ credited' = Credit(credited, page)
    /\ \E r \in {MergeAuthors(profiles_map, page, 1)} :
          IF r.raised
          THEN /\ profiles_map' = r.map
               /\ idx' = idx + 1
               /\ pc' = "loop"
               /\ UNCHANGED <<processed, wpc, wobj, wprev, wlog>>
          ELSE /\ processed' = processed + 1
               /\ IF (processed + 1) % WRITE_PROGRESS_EVERY = 0
                  THEN \E fin \in {_finalize_profiles(r.map)} :
                          /\ profiles_map' = fin.map
                          /\ CallWrite("progress", ProgressPayload(detected, fin.profiles))
                          /\ idx' = idx
                  ELSE /\ profiles_map' = r.map
                       /\ idx' = idx + 1
                       /\ pc' = "loop"
                       /\ UNCHANGED <<wpc, wobj, wprev, wlog>>
    /\ UNCHANGED <<wrVars, argv, site, exit_status, net_used, detected, urls, page,
                   final_profiles, call,
                   last, response, other_pc, crawlVars>>

\* Lines 366-367, 413-414 and 457-462: the loop ends, the map is finalized and main
\* writes the final snapshot.
FinishExtract ==
    /\ pc = "loop" /\ ~InLoop
    /\ \E fin \in {_finalize_profiles(profiles_map)} :
          /\ profiles_map' = fin.map
          /\ final_profiles' = fin.profiles
          /\ CallWrite("final", FinalPayload(detected, fin.profiles))
    /\ UNCHANGED <<wrVars, argv, site, exit_status, net_used, detected, urls, idx, page,
                   processed, credited, call,
                   last, response, other_pc, crawlVars>>

\* Lines 464-467 and 471: the summary is printed and the process exits with 0.
PrintSummary ==
    /\ pc = "summary"
    /\ pc' = "exit"
    /\ exit_status' = 0
    /\ UNCHANGED <<argv, site, file, tmp, wpc, wobj, wprev, wlog, faults, net_used, detected,
                   urls, idx, page, profiles_map, processed, final_profiles, credited, call,
                   last, response, other_pc, crawlVars>>

\* Lines 464-466 and 472-474: print raises (stdout closed or unable to encode the
\* text); the handler of line 472 exits with 1.
PrintRaises ==
    /\ pc = "summary"
    /\ pc' = "exit"
    /\ exit_status' = 1
    /\ UNCHANGED <<argv, site, file, tmp, wpc, wobj, wprev, wlog, faults, net_used, detected,
                   urls, idx, page, profiles_map, processed, final_profiles, credited, call,
                   last, response, other_pc, crawlVars>>

\* The process is killed from outside (app.py kills it when its timeout expires).
Terminate ==
    /\ pc \notin {"exit", "killed", "unstarted", "pure"}
    /\ pc' = "killed"
    /\ UNCHANGED <<argv, site, exit_status, file, tmp, wpc, wobj, wprev, wlog, faults, net_used,
                   detected, urls, idx, page, profiles_map, processed, final_profiles,
                   credited, call,
                   last, response, other_pc, crawlVars>>

\* ------------------------------------------------- find_article_links, steps
loopVars == <<argv, site, exit_status, file, tmp, wpc, wobj, wprev, wlog, faults, net_used,
              detected, page, profiles_map, processed, final_profiles, credited, call, last,
              response, other_pc>>

\* Lines 316-324: the queue holds the base URL and the seeds.
CrawlStart ==
    /\ pc = "crawl"
    /\ to_visit' = <<BaseUrl>> \o [i \in DOMAIN seeds |-> SeedUrl(seeds[i])]
    /\ seen' = {}
    /\ article_links' = {}
    /\ crawl_log' = <<>>
    /\ pc' = "crawling"
    /\ UNCHANGED <<loopVars, urls, idx, links>>

\* Variant: line 325 without the test of the cap.
CrawlGoesOnUncapped == to_visit # <<>>

\* Line 325
CrawlGoesOn == to_visit # <<>> /\ Cardinality(article_links) < MAX_ARTICLE_URLS

\* Lines 326-328: the URL taken from the queue was visited before.
CrawlSkipSeen ==
    /\ pc = "crawling" /\ CrawlGoesOn
    /\ Head(to_visit) \in seen
    /\ to_visit' = Tail(to_visit)
    /\ UNCHANGED <<loopVars, pc, urls, idx, links, seen, article_links, crawl_log>>

\* Lines 326-332: robots.txt disallows the URL taken from the queue.
CrawlRobotsDisallow ==
    /\ pc = "crawling" /\ CrawlGoesOn
    /\ Head(to_visit) \notin seen
    /\ \E rb \in RobotsOutcomes :
          /\ ~allowed_by_robots(rb)
          /\ crawl_log' = Append(crawl_log,
                                 [url |-> Head(to_visit), robots |-> rb, fetch |-> "none"])
    /\ seen' = seen \cup {Head(to_visit)}
    /\ to_visit' = Tail(to_visit)
    /\ UNCHANGED <<loopVars, pc, urls, idx, links, article_links>>

\* Lines 326-335 and 354-355: the request raises or the status is not 200.
CrawlFetchFails ==
    /\ pc = "crawling" /\ CrawlGoesOn
    /\ Head(to_visit) \notin seen
    /\ \E rb \in RobotsOutcomes :
          /\ allowed_by_robots(rb)
          /\ crawl_log' = Append(crawl_log,
                                 [url |-> Head(to_visit), robots |-> rb, fetch |-> "failed"])
    /\ seen' = seen \cup {Head(to_visit)}
    /\ to_visit' = Tail(to_visit)
    /\ UNCHANGED <<loopVars, pc, urls, idx, links, article_links>>

\* Variant: lines 326-353 without line 329, the URL is not put into the visited set.
CrawlFetchPageForgets ==
    /\ pc = "crawling" /\ CrawlGoesOn
    /\ Head(to_visit) \notin seen
    /\ \E rb \in RobotsOutcomes :
          /\ allowed_by_robots(rb)
          /\ crawl_log' = Append(crawl_log,
                                 [url |-> Head(to_visit), robots |-> rb, fetch |-> "ok"])
    /\ seen' = seen
    /\ \E r \in {ScanAnchors(Anchors(Head(to_visit)), 1, Lower(BaseUrl.host),
                             seen, article_links, Tail(to_visit))} :
          /\ article_links' = r.links
          /\ to_visit' = r.queue
    /\ UNCHANGED <<loopVars, pc, urls, idx, links>>

\* Lines 326-353: the page is fetched and its anchors are sorted into the result set
\* and the queue.
CrawlFetchPage ==
    /\ pc = "crawling" /\ CrawlGoesOn
    /\ Head(to_visit) \notin seen
    /\ \E rb \in RobotsOutcomes :
          /\ allowed_by_robots(rb)
          /\ crawl_log' = Append(crawl_log,
                                 [url |-> Head(to_visit), robots |-> rb, fetch |-> "ok"])
    /\ seen' = seen \cup {Head(to_visit)}
    /\ \E r \in {ScanAnchors(Anchors(Head(to_visit)), 1, Lower(BaseUrl.host),
                             seen \cup {Head(to_visit)}, article_links, Tail(to_visit))} :
          /\ article_links' = r.links
          /\ to_visit' = r.queue
    /\ UNCHANGED <<loopVars, pc, urls, idx, links>>

\* The lists a set can be turned into: list(article_links) has no defined order.
ListsOf(S) == {f \in [1..Cardinality(S) -> S] : \A i, j \in DOMAIN f : f[i] = f[j] => i = j}

\* Lines 325 and 356: the loop ends and the result set is returned as a list cut
\* at the cap; the locals of the call are gone.
CrawlReturn ==
    /\ pc = "crawling" /\ ~CrawlGoesOn
    /\ \E l \in ListsOf(article_links) : links' = Slice(l, MAX_ARTICLE_URLS)
    /\ urls' = Len(links')
    /\ idx' = 1
    /\ pc' = "loop"
    /\ to_visit' = <<>>
    /\ seen' = {}
    /\ article_links' = {}
    /\ UNCHANGED <<loopVars, crawl_log>>

\* ---------------------------------------------------------------- app.py
\* Lines 59-70: scrapper.py is missing or subprocess.run cannot start it; the
\* handler goes on to read data.json.
SpawnFails ==
    /\ pc = "main"
    /\ pc' = "unstarted"
    /\ UNCHANGED <<argv, site, exit_status, file, tmp, wpc, wobj, wprev, wlog, faults, net_used,
                   detected, urls, idx, page, profiles_map, processed, final_profiles,
                   credited, call, last, response, other_pc, crawlVars>>

\* isinstance(loaded, list): a document that is a list has the one field items.
IsList(loaded) == DOMAIN loaded = {"items"}

\* Lines 73-87: the list api_scrape takes from data.json.
ReadDataFile(f) ==
    IF ~f.exists THEN <<>>
    ELSE IF ~Loads(f.data).ok THEN <<>>
    ELSE The({IF IsList(loaded) THEN loaded.items
              ELSE IF "profiles" \in DOMAIN loaded THEN loaded.profiles
              ELSE <<>> :
                 loaded \in {Loads(f.data).obj}})

\* Lines 65-89: subprocess.run has returned or raised (the scraper exited, was
\* killed at the timeout or never started) and api_scrape answers from data.json.
ApiRespond ==
    /\ pc \in {"exit", "killed", "unstarted"}
    /\ ~response.sent
    /\ response' = [sent |-> TRUE, data |-> ReadDataFile(file)]
    /\ UNCHANGED <<argv, site, pc, exit_status, file, tmp, wpc, wobj, wprev, wlog, faults,
                   net_used, detected, urls, idx, page, profiles_map, processed,
                   final_profiles, credited, call, last, other_pc, crawlVars>>

\* ------------------------------------------ a second request to api_scrape
\* The handler has no lock and every scraper it starts is given the same data_file
\* (scrapper.py line 29), so the run of a second request writes the data.json the
\* first request answers from. That run is scrapper.py for another outlet, seen
\* through data.json alone: its writes that went the os.replace way.
OtherRun == [outlet  |-> <<"B","B">>,
             website |-> "https://www.bb.com",
             page    |-> [url |-> 1, authors |-> <<Bo>>, title |-> "Budget vote",
                          pub_date |-> Unknown, section |-> "Politics"]]

\* The object main of that run hands to _atomic_write_json.
OtherSnapshot(website, profiles, note) ==
    [Payload(website, profiles, note) EXCEPT !.outlet_name = OtherRun.outlet]

\* app.py lines 53-65: api_scrape handles a second request and starts its scraper.
OtherRequest ==
    /\ other_pc = "none"
    /\ other_pc' = "main"
    /\ UNCHANGED <<argv, site, pc, exit_status, file, tmp, wpc, wobj, wprev, wlog, faults,
                   net_used, detected, urls, idx, page, profiles_map, processed,
                   final_profiles, credited, call, last, response, crawlVars>>

\* scrapper.py lines 446-451 in that run: its placeholder replaces data.json.
OtherPlaceholder ==
    /\ other_pc = "main"
    /\ file' = [exists |-> TRUE, data |-> Dumps(OtherSnapshot("", <<>>, TRUE))]
    /\ other_pc' = "detect"
    /\ UNCHANGED <<argv, site, pc, exit_status, tmp, wpc, wobj, wprev, wlog, faults,
                   net_used, detected, urls, idx, page, profiles_map, processed,
                   final_profiles, credited, call, last, response, crawlVars>>

\* scrapper.py lines 452-462 in that run: the profiles of its one page replace
\* data.json and the run exits.
OtherFinal ==
    /\ other_pc = "detect"
    /\ \E fin \in {_finalize_profiles(MergeAuthors(<<>>, OtherRun.page, 1).map)} :
          file' = [exists |-> TRUE,
                   data |-> Dumps(OtherSnapshot(OtherRun.website, fin.profiles, FALSE))]
    /\ other_pc' = "exit"
    /\ UNCHANGED <<argv, site, pc, exit_status, tmp, wpc, wobj, wprev, wlog, faults,
                   net_used, detected, urls, idx, page, profiles_map, processed,
                   final_profiles, credited, call, last, response, crawlVars>>

Init ==
    /\ argv \in ArgvInputs
    /\ site = PlainSite
    /\ pc = "main"
    /\ exit_status = -1
    /\ file \in {NoFile, OldFile}
    /\ tmp = NoFile
    /\ wpc = "idle"
    /\ wobj = PlaceholderPayload
    /\ wprev = NoFile
    /\ wlog = <<>>
    /\ faults = 0
    /\ net_used = FALSE
    /\ detected = ""
    /\ urls = 0
    /\ idx = 1
    /\ page = NoPage
    /\ profiles_map = <<>>
    /\ processed = 0
    /\ final_profiles = <<>>
    /\ credited = <<>>
    /\ last = NoAttempt
    /\ response = NoResponse
    /\ other_pc = "none"
    /\ to_visit = <<>>
    /\ seen = {}
    /\ article_links = {}
    /\ links = <<>>
    /\ crawl_log = <<>>
    /\ call = NoCall

Next ==
    \/ UsageError
    \/ WritePlaceholder
    \/ Mkstemp
    \/ TmpDump
    \/ Replace
    \/ TmpPathRaises
    \/ FallbackOpen
    \/ FallbackDump
    \/ FallbackRaises
    \/ DetectFound
    \/ DetectNone
    \/ FindArticleLinks
    \/ RobotsDisallow
    \/ FetchFails
    \/ FetchPage
    \/ MergePage
    \/ FinishExtract
    \/ PrintSummary
    \/ PrintRaises
    \/ Terminate
    \/ SpawnFails
    \/ ApiRespond

Spec == Init /\ [][Next]_vars

\* Runs on the stub sites in which no I/O error is raised and nobody kills the
\* process: the aggregation of extract_profiles and _finalize_profiles.
InitAggregation ==
    /\ argv = [present |-> TRUE, value |-> <<" ","T","H"," ">>]
    /\ site \in StubSites
    /\ pc = "main"
    /\ exit_status = -1
    /\ file = OldFile
    /\ tmp = NoFile
    /\ wpc = "idle"
    /\ wobj = PlaceholderPayload
    /\ wprev = NoFile
    /\ wlog = <<>>
    /\ faults = 0
    /\ net_used = FALSE
    /\ detected = ""
    /\ urls = 0
    /\ idx = 1
    /\ page = NoPage
    /\ profiles_map = <<>>
    /\ processed = 0
    /\ final_profiles = <<>>
    /\ credited = <<>>
    /\ last = NoAttempt
    /\ response = NoResponse
    /\ other_pc = "none"
    /\ to_visit = <<>>
    /\ seen = {}
    /\ article_links = {}
    /\ links = <<>>
    /\ crawl_log = <<>>
    /\ call = NoCall

NextAggregation ==
    \/ WritePlaceholder
    \/ Mkstemp
    \/ TmpDump
    \/ Replace
    \/ DetectFound
    \/ DetectNone
    \/ FindArticleLinks
    \/ RobotsDisallow
    \/ FetchFails
    \/ FetchPage
    \/ MergePage
    \/ FinishExtract
    \/ PrintSummary

SpecAggregation == InitAggregation /\ [][NextAggregation]_vars

\* The crawl of find_article_links on the small web, step by step, and the article
\* loop over the list it returns; the run starts where detect_website has returned.
InitCrawl ==
    /\ argv = [present |-> TRUE, value |-> <<" ","T","H"," ">>]
    /\ site = SoloSite
    /\ pc = "crawl"
    /\ exit_status = -1
    /\ file = [exists |-> TRUE, data |-> Dumps(PlaceholderPayload)]
    /\ tmp = NoFile
    /\ wpc = "idle"
    /\ wobj = PlaceholderPayload
    /\ wprev = OldFile
    /\ wlog = <<[kind |-> "placeholder", obj |-> PlaceholderPayload, result |-> "atomic"]>>
    /\ faults = 0
    /\ net_used = TRUE
    /\ detected = Website
    /\ urls = 0
    /\ idx = 1
    /\ page = NoPage
    /\ profiles_map = <<>>
    /\ processed = 0
    /\ final_profiles = <<>>
    /\ credited = <<>>
    /\ call = NoCall
    /\ last = NoAttempt
    /\ response = NoResponse
    /\ other_pc = "none"
    /\ to_visit = <<>>
    /\ seen = {}
    /\ article_links = {}
    /\ links = <<>>
    /\ crawl_log = <<>>

NextCrawl ==
    \/ CrawlStart
    \/ CrawlSkipSeen
    \/ CrawlRobotsDisallow
    \/ CrawlFetchFails
    \/ CrawlFetchPage
    \/ CrawlReturn
    \/ RobotsDisallow
    \/ FetchFails
    \/ FetchPage
    \/ MergePage
    \/ FinishExtract

SpecCrawl == InitCrawl /\ [][NextCrawl]_vars

\* One call of find_article_links in a process that is not stopped from outside:
\* every request has a timeout (REQUEST_TIMEOUT) and the interpreter goes on to the
\* next statement.
NextCrawlCall ==
    \/ CrawlStart
    \/ CrawlSkipSeen
    \/ CrawlRobotsDisallow
    \/ CrawlFetchFails
    \/ CrawlFetchPage
    \/ CrawlReturn

SpecCrawlCall == InitCrawl /\ [][NextCrawlCall]_vars /\ WF_vars(NextCrawlCall)

\* Two requests to api_scrape: the one whose run and answer the state follows, on
\* a one-page site and without I/O errors, and a second one at any time.
InitOverlap ==
    /\ argv \in ArgvInputs
    /\ site = SoloSite
    /\ pc = "main"
    /\ exit_status = -1
    /\ file \in {NoFile, OldFile}
    /\ tmp = NoFile
    /\ wpc = "idle"
    /\ wobj = PlaceholderPayload
    /\ wprev = NoFile
    /\ wlog = <<>>
    /\ faults = 0
    /\ net_used = FALSE
    /\ detected = ""
    /\ urls = 0
    /\ idx = 1
    /\ page = NoPage
    /\ profiles_map = <<>>
    /\ processed = 0
    /\ final_profiles = <<>>
    /\ credited = <<>>
    /\ last = NoAttempt
    /\ response = NoResponse
    /\ other_pc = "none"
    /\ to_visit = <<>>
    /\ seen = {}
    /\ article_links = {}
    /\ links = <<>>
    /\ crawl_log = <<>>
    /\ call = NoCall

NextOverlap ==
    \/ UsageError
    \/ WritePlaceholder
    \/ Mkstemp
    \/ TmpDump
    \/ Replace
    \/ DetectFound
    \/ DetectNone
    \/ FindArticleLinks
    \/ RobotsDisallow
    \/ FetchFails
    \/ FetchPage
    \/ MergePage
    \/ FinishExtract
    \/ PrintSummary
    \/ Terminate
    \/ SpawnFails
    \/ ApiRespond
    \/ OtherRequest
    \/ OtherPlaceholder
    \/ OtherFinal

SpecOverlap == InitOverlap /\ [][NextOverlap]_vars

\* One application of _prefer_newer to a pair of date strings.
InitPreferNewer ==
    /\ argv = [present |-> FALSE, value |-> <<>>]
    /\ site = {}
    /\ pc = "pure"
    /\ exit_status = -1
    /\ file = NoFile
    /\ tmp = NoFile
    /\ wpc = "idle"
    /\ wobj = PlaceholderPayload
    /\ wprev = NoFile
    /\ wlog = <<>>
    /\ faults = 0
    /\ net_used = FALSE
    /\ detected = ""
    /\ urls = 0
    /\ idx = 1
    /\ page = NoPage
    /\ profiles_map = <<>>
    /\ processed = 0
    /\ final_profiles = <<>>
    /\ credited = <<>>
    /\ last = NoAttempt
    /\ response = NoResponse
    /\ other_pc = "none"
    /\ to_visit = <<>>
    /\ seen = {}
    /\ article_links = {}
    /\ links = <<>>
    /\ crawl_log = <<>>
    /\ \E e \in DateCases, c \in DateCases :
          call = [fn |-> "_prefer_newer", existing |-> e, candidate |-> c,
                  done |-> FALSE, result |-> FALSE]

ApplyPreferNewer ==
    /\ pc = "pure" /\ call.fn = "_prefer_newer" /\ ~call.done
    /\ call' = [call EXCEPT !.done = TRUE,
                            !.result = _prefer_newer(call.existing.text, call.candidate.text)]
    /\ UNCHANGED <<argv, site, pc, exit_status, file, tmp, wpc, wobj, wprev, wlog, faults,
                   net_used, detected, urls, idx, page, profiles_map, processed,
                   final_profiles, credited,
                   last, response, other_pc, crawlVars>>

NextPreferNewer == ApplyPreferNewer

SpecPreferNewer == InitPreferNewer /\ [][NextPreferNewer]_vars

\* Raw author strings: a prefix, a name and a tail.
NameInputs ==
    LET prefixes == {<<>>, <<" ">>, <<"B","y"," ">>, <<"b","y",":"," ">>, <<"B","Y"," "," ">>,
                     <<"B","y"," ","b","y"," ">>, <<"(","b","y",")"," ">>}
        cores == {<<"a","l">>, <<"A","L">>, <<"j","o"," ","v","u">>, <<"x">>, <<"o",".","k">>,
                  <<"a",ZWSP,"l">>, <<"b","y">>, <<"B","y","r","d">>}
        tails == {<<>>, <<".">>, <<" ">>, <<","," ","j","r">>}
    IN  {<<>>} \cup {p \o c \o t : p \in prefixes, c \in cores, t \in tails}

\* normalize_name applied to a raw string and then to its own result.
InitNormalize ==
    /\ argv = [present |-> FALSE, value |-> <<>>]
    /\ site = {}
    /\ pc = "pure"
    /\ exit_status = -1
    /\ file = NoFile
    /\ tmp = NoFile
    /\ wpc = "idle"
    /\ wobj = PlaceholderPayload
    /\ wprev = NoFile
    /\ wlog = <<>>
    /\ faults = 0
    /\ net_used = FALSE
    /\ detected = ""
    /\ urls = 0
    /\ idx = 1
    /\ page = NoPage
    /\ profiles_map = <<>>
    /\ processed = 0
    /\ final_profiles = <<>>
    /\ credited = <<>>
    /\ last = NoAttempt
    /\ response = NoResponse
    /\ other_pc = "none"
    /\ to_visit = <<>>
    /\ seen = {}
    /\ article_links = {}
    /\ links = <<>>
    /\ crawl_log = <<>>
    /\ \E n \in NameInputs :
          call = [fn |-> "normalize_name", name |-> n, done |-> FALSE,
                  once |-> <<>>, twice |-> <<>>]

ApplyNormalize ==
    /\ pc = "pure" /\ call.fn = "normalize_name" /\ ~call.done
    /\ \E r \in {normalize_name(call.name)} :
          call' = [call EXCEPT !.done = TRUE, !.once = r, !.twice = normalize_name(r)]
    /\ UNCHANGED <<argv, site, pc, exit_status, file, tmp, wpc, wobj, wprev, wlog, faults,
                   net_used, detected, urls, idx, page, profiles_map, processed,
                   final_profiles, credited, last, response, other_pc, crawlVars>>

NextNormalize == ApplyNormalize

SpecNormalize == InitNormalize /\ [][NextNormalize]_vars

\* ================================================================== claims
FileOf(obj) == [exists |-> TRUE, data |-> Dumps(obj)]
Stored(i) == wlog[i].result \in {"atomic", "direct"}
ThisRun(obj) == \E i \in DOMAIN wlog : wlog[i].obj = obj

\* C1: when the process is killed at any step of a checkpoint write that found a
\* complete snapshot in data.json, the file parses as JSON afterwards and holds either
\* that previous snapshot or the new one.
C1_KilledWriteLeavesSnapshot ==
    (pc = "killed" /\ wpc # "idle" /\ Parses(wprev))
        => (Parses(file) /\ (file = wprev \/ file = FileOf(wobj)))

\* C2 as claimed: the placeholder is the first write and has returned before any
\* network request, and from then on, until the next checkpoint write is called, with
\* no article processed, data.json holds a complete snapshot of this run.
PlaceholderFirst ==
    /\ wlog # <<>> =>
          /\ wlog[1].kind = "placeholder"
          /\ wlog[1].obj.outlet_name = Strip(argv.value)
          /\ wlog[1].obj.website = ""
          /\ wlog[1].obj.profiles = <<>>
          /\ wlog[1].obj.note
    /\ net_used => (wlog # <<>> /\ wlog[1].result # "running")
    /\ (processed > 0 \/ page # NoPage) => net_used

AfterPlaceholder == Len(wlog) = 1 /\ wlog[1].result # "running" /\ processed = 0

C3_EndsWithFinalCheckpoint ==
    (pc \in {"summary", "exit"} /\ exit_status # 2) =>
        LET n == Len(wlog)
        IN  /\ n >= 2
            /\ wlog[1].kind = "placeholder"
            /\ wlog[n].kind = "final"
            /\ \A i \in 2..(n - 1) : wlog[i].kind = "progress"
            /\ ~wlog[n].obj.note
            /\ wlog[n].obj.website = detected
            /\ wlog[n].obj.profiles = final_profiles
            /\ final_profiles = _finalize_profiles(profiles_map).profiles
            /\ (detected = "" => final_profiles = <<>>)
            /\ wlog[n].result # "running"
            /\ wpc = "idle"

C3_Witness ==
    /\ pc = "exit" /\ exit_status = 0
    /\ Len(wlog) = 3 /\ wlog[2].kind = "progress"
    /\ Len(final_profiles) = 2
    /\ detected = Website

\* C10: the run exits with status 2 exactly when the outlet name is absent or blank,
\* and then nothing was written and no network request was made; every other exit has
\* status 0 or, after an uncaught exception, 1.
BlankArgv == ~argv.present \/ \A i \in DOMAIN argv.value : argv.value[i] = " "

C10_UsageErrorExit ==
    /\ BlankArgv =>
          /\ pc \in {"main", "exit", "killed", "unstarted"}
          /\ wlog = <<>> /\ wpc = "idle" /\ ~net_used
          /\ file \in {NoFile, OldFile} /\ tmp = NoFile
    /\ (pc = "exit" /\ BlankArgv) => exit_status = 2
    /\ (pc = "exit" /\ ~BlankArgv) => exit_status \in {0, 1}
    /\ pc # "exit" => exit_status = -1

C10_Witness ==
    /\ pc = "exit" /\ exit_status = 2
    /\ argv.present /\ argv.value = <<" ">>

\* Every profile list that finalization produced: the payloads of the progress and
\* final checkpoints and the list extract_profiles returned.
ProducedLists == {wlog[i].obj.profiles : i \in DOMAIN wlog} \cup {final_profiles}
Ended == pc \in {"summary", "exit"}

\* C4: at the end of a run the beat shown for an author is the beat observed most
\* often among the observations merged for that author, the beat seen first on a tie.
C4_BeatIsMostObserved ==
    Ended => \A i \in DOMAIN final_profiles :
                 LET p == final_profiles[i]
                 IN  p.beat = BestBeat(credited[Lower(p.name)].beats)

\* C5: at the end of a run the profile list has one entry per credited author that
\* is no placeholder name, and its articles_count is the number of fetched pages that
\* credit the author.
C5_CountIsPagesCrediting ==
    Ended =>
        /\ \A i \in DOMAIN final_profiles :
               LET p == final_profiles[i]
               IN  /\ Lower(p.name) \in DOMAIN credited
                   /\ p.articles_count = credited[Lower(p.name)].pages
        /\ \A i, j \in DOMAIN final_profiles :
               Lower(final_profiles[i].name) = Lower(final_profiles[j].name) => i = j
        /\ \A k \in DOMAIN credited :
               k \notin blacklist => \E i \in DOMAIN final_profiles : Lower(final_profiles[i].name) = k

\* C6: no profile list produced by finalization holds an entry whose display name,
\* case-folded, is staff, editorial, team, contributors, unknown or s.
PlaceholderNames ==
    {<<"s","t","a","f","f">>, <<"e","d","i","t","o","r","i","a","l">>, <<"t","e","a","m">>,
     <<"c","o","n","t","r","i","b","u","t","o","r","s">>, <<"u","n","k","n","o","w","n">>,
     <<"s">>}

C6_NoPlaceholderNames ==
    \A ps \in ProducedLists : \A i \in DOMAIN ps : Lower(ps[i].name) \notin PlaceholderNames

C6_Witness ==
    /\ pc = "exit"
    /\ <<"s","t","a","f","f">> \in DOMAIN profiles_map
    /\ profiles_map[<<"s","t","a","f","f">>].articles_count >= 2
    /\ Len(final_profiles) >= 1
    /\ Len(wlog) = 3

\* C8: the latest article, its URL and its date of a profile are set together from
\* one page that credits the author: a step that creates an entry or changes one of
\* the three sets all three from the page being merged.
Shown(title) == IF title = "" THEN "Unknown" ELSE title
Latest(e) == <<e.latest_article, e.article_url, e.publication_date>>

C8_LatestTravelsTogether ==
    [][\A k \in DOMAIN profiles_map' :
          (k \notin DOMAIN profiles_map \/ Latest(profiles_map'[k]) # Latest(profiles_map[k]))
              => /\ pc = "merge"
                 /\ k \in PageKeys(page)
                 /\ profiles_map'[k].article_url = page.url
                 /\ Shown(profiles_map'[k].latest_article) = Shown(page.title)
                 /\ profiles_map'[k].publication_date =
                        (IF page.pub_date = <<>> THEN Unknown ELSE page.pub_date)]_vars

\* An entry created from page 1 whose latest article was replaced by page 2.
C8_Witness ==
    /\ pc = "loop" /\ idx = 3
    /\ Lower(Al) \in DOMAIN profiles_map
    /\ profiles_map[Lower(Al)].articles_count = 2
    /\ profiles_map[Lower(Al)].article_url = 2
    /\ profiles_map[Lower(Al)].latest_article = "Budget vote"
    /\ profiles_map[Lower(Al)].publication_date = FormatDate(2024, 11, 30, "slash")

\* C9: every profile list produced by finalization is in order of non-increasing
\* articles_count and, among equal counts, of ascending display name.
C9_ListsSorted ==
    \A ps \in ProducedLists : \A i \in 1..(Len(ps) - 1) :
        \/ ps[i].articles_count > ps[i + 1].articles_count
        \/ /\ ps[i].articles_count = ps[i + 1].articles_count
           /\ StrLess(ps[i].name, ps[i + 1].name)

\* A list whose order by count is the reverse of its order by name.
C9_Witness ==
    /\ pc = "exit"
    /\ Len(final_profiles) = 2
    /\ final_profiles[1].name = Bo /\ final_profiles[2].name = Al
    /\ final_profiles[1].articles_count > final_profiles[2].articles_count

\* C7: _prefer_newer is false for an empty or "Unknown" candidate; otherwise true for
\* an empty or "Unknown" existing date; otherwise, when both strings hold a calendar
\* date, true exactly when the candidate's date is the later one; otherwise true
\* exactly when the candidate string is the longer one.
KnownDate(c) == c.text # <<>> /\ c.text # Unknown
HoldsDate(c) == c.dated /\ ValidDate(c.y, c.m, c.d)
LaterDay(c, e) == c.y * 10000 + c.m * 100 + c.d > e.y * 10000 + e.m * 100 + e.d

C7_PreferNewer ==
    (call.fn = "_prefer_newer" /\ call.done) =>
        LET e == call.existing
            c == call.candidate
        IN  call.result =
                (IF ~KnownDate(c) THEN FALSE
                 ELSE IF ~KnownDate(e) THEN TRUE
                 ELSE IF HoldsDate(c) /\ HoldsDate(e) THEN LaterDay(c, e)
                 ELSE Len(c.text) > Len(e.text))

\* The later date wins although its string is the shorter one.
C7_Witness ==
    /\ call.fn = "_prefer_newer" /\ call.done /\ call.result
    /\ HoldsDate(call.candidate) /\ HoldsDate(call.existing)
    /\ Len(call.candidate.text) < Len(call.existing.text)

\* C11: when the request for a page of the article loop raises, times out or answers
\* with a status other than 200, the profile map stays as it was before that page,
\* the loop goes on to the next URL, the process keeps running, and a run that
\* comes to its end after such a failure has written the final snapshot last.
FinalWrittenLast ==
    /\ wlog # <<>>
    /\ wlog[Len(wlog)].kind = "final"
    /\ wlog[Len(wlog)].obj = FinalPayload(detected, final_profiles)

C11_FetchFailureSkipsPage ==
    /\ [][(pc = "loop" /\ last'.fetch = "failed" /\ <<idx, last>>' # <<idx, last>>)
            => /\ profiles_map' = profiles_map
               /\ idx' = idx + 1
               /\ pc' = "loop"
               /\ exit_status' = exit_status]_vars
    /\ []((pc = "exit" /\ last.fetch = "failed") => FinalWrittenLast)

C11_Witness ==
    /\ pc = "exit" /\ exit_status = 0
    /\ last.fetch = "failed"
    /\ profiles_map # <<>>
    /\ FinalWrittenLast

\* C12: api_scrape answers with the empty list whenever the scraper it ran could
\* not be started or exited with a status other than 0, and whenever data.json is
\* missing or does not parse.
RunFailed == pc = "unstarted" \/ (pc = "exit" /\ exit_status # 0)

C12_FailedRunReturnsEmpty ==
    (response.sent /\ (RunFailed \/ ~Parses(file))) => response.data = <<>>

\* C13: every URL find_article_links puts into its result set or returns, and every
\* URL it puts into the queue from a parsed page, has the host of the base URL; a
\* link to another host is discarded.
domain == Lower(BaseUrl.host)
OnDomain(u) == Lower(u.host) = domain

C13_OnlyCrawlDomain ==
    /\ \A u \in article_links : OnDomain(u)
    /\ \A i \in DOMAIN to_visit : OnDomain(to_visit[i])
    /\ \A i \in DOMAIN links : OnDomain(links[i])

\* C14: find_article_links returns at most MAX_ARTICLE_URLS URLs, all different and
\* none with a query string, and once the result set holds that many the only
\* step of the crawl is its return: no URL is taken from the queue or fetched.
C14_CappedDistinctNoQuery ==
    /\ [](/\ Len(links) <= MAX_ARTICLE_URLS
          /\ \A i, j \in DOMAIN links : links[i] = links[j] => i = j
          /\ \A i \in DOMAIN links : links[i].query = <<>>)
    /\ [][(pc = "crawling" /\ Cardinality(article_links) >= MAX_ARTICLE_URLS)
            => (pc' = "loop" /\ crawl_log' = crawl_log)]_vars

\* The result set went over the cap and the list returned was cut.
C14_Witness ==
    /\ pc = "loop"
    /\ Len(links) = MAX_ARTICLE_URLS
    /\ to_visit = <<>>
    /\ \E i \in DOMAIN crawl_log :
          /\ crawl_log[i].url = Web.news /\ crawl_log[i].fetch = "ok"
          /\ \E j \in 1..(i - 1) : crawl_log[j].url = Web.front /\ crawl_log[j].fetch = "ok"

\* C15: neither loop requests a URL whose robots check answered that it is
\* disallowed, a robots check that raises counts as allowed and the URL is requested,
\* and no URL is taken up a second time by the loop that skipped it.
C15_RobotsRespected ==
    /\ \A i \in DOMAIN crawl_log :
          /\ crawl_log[i].robots = "disallows" => crawl_log[i].fetch = "none"
          /\ crawl_log[i].robots = "raises" => crawl_log[i].fetch # "none"
          /\ \A j \in DOMAIN crawl_log : crawl_log[i].url = crawl_log[j].url => i = j
    /\ last.robots = "disallows" => last.fetch = "none"
    /\ last.robots = "raises" => last.fetch # "none"
    /\ \A i, j \in DOMAIN links : links[i] = links[j] => i = j

C15_Witness ==
    /\ \E i, j \in DOMAIN crawl_log :
          /\ crawl_log[i].robots = "disallows"
          /\ crawl_log[j].robots = "raises" /\ crawl_log[j].fetch = "ok"
    /\ pc = "loop" /\ idx = urls + 1 /\ urls >= 2
    /\ last.robots = "raises" /\ last.fetch = "ok"

\* C16: normalize_name applied to its own result returns that result, for every
\* input string.
C16_NormalizeIdempotent ==
    (call.fn = "normalize_name" /\ call.done) => call.twice = call.once

\* C17: the step that finalizes the map for a progress checkpoint and starts writing
\* it leaves profiles_map, beat_counts of every entry included, as the merge of the
\* page left it.
C17_CheckpointLeavesMap ==
    [][(pc = "merge" /\ pc' = "progress")
        => profiles_map' = MergeAuthors(profiles_map, page, 1).map]_vars

\* C18: at the end of a run, for an author all of whose crediting pages carry a date
\* that parses as year-month-day, the profile's publication_date is the latest of
\* those dates and latest_article is the title of a page carrying it, wherever the
\* progress checkpoints fell.
DayOf(text) == LET d == parse_iso(text) IN d.y * 10000 + d.m * 100 + d.d
AllDated(obs) == \A o \in obs : o.pub_date # <<>> /\ o.pub_date # Unknown /\ parse_iso(o.pub_date).ok

C18_LatestOfAllPages ==
    Ended => \A i \in DOMAIN final_profiles :
                 LET p == final_profiles[i]
                     obs == credited[Lower(p.name)].obs
                 IN  AllDated(obs) =>
                        /\ parse_iso(p.publication_date).ok
                        /\ \A o \in obs : DayOf(p.publication_date) >= DayOf(o.pub_date)
                        /\ \E o \in obs : /\ o.pub_date = p.publication_date
                                           /\ Shown(o.title) = p.latest_article
                        /\ p.article_url \in 1..urls

\* C19: when extract_profiles has returned, every URL of the list the crawler gave
\* it has been taken up by the loop (robots check, request, and on success
\* extraction and merge).
Extracted == pc \in {"final", "summary", "exit"} /\ detected # ""

C19_EveryUrlAttempted == Extracted => idx = urls + 1

\* C19, amended: the loop takes up the URLs in list order and stops when the list is
\* used up or when the map holds min_profiles entries; the URLs after that are not
\* taken up.
C19_AttemptedUntilEnough ==
    Extracted => \/ idx = urls + 1
                 \/ idx <= urls /\ Cardinality(DOMAIN profiles_map) >= min_profiles

C19_Witness ==
    /\ pc = "exit" /\ detected # ""
    /\ urls >= 3 /\ idx = urls + 1
    /\ last.fetch = "failed"
    /\ processed >= 2

\* C20: within a run no step removes an entry from the profile map or lowers its
\* articles_count, and an author listed in one snapshot the run writes is listed in
\* every later snapshot of the run with an articles_count at least as large.
Lists(ps, name, n) ==
    \E i \in DOMAIN ps : ps[i].name = name /\ ps[i].articles_count >= n

C20_EntriesOnlyGrow ==
    /\ [][\A k \in DOMAIN profiles_map :
             /\ k \in DOMAIN profiles_map'
             /\ profiles_map'[k].articles_count >= profiles_map[k].articles_count]_vars
    /\ [](\A i, j \in DOMAIN wlog :
             i < j => \A a \in DOMAIN wlog[i].obj.profiles :
                         Lists(wlog[j].obj.profiles, wlog[i].obj.profiles[a].name,
                               wlog[i].obj.profiles[a].articles_count))

C20_Witness ==
    /\ pc = "exit"
    /\ \E i, j \in DOMAIN wlog :
          /\ i < j
          /\ \E a \in DOMAIN wlog[i].obj.profiles :
                Lists(wlog[j].obj.profiles, wlog[i].obj.profiles[a].name,
                      wlog[i].obj.profiles[a].articles_count + 1)
          /\ Len(wlog[j].obj.profiles) > Len(wlog[i].obj.profiles)


\* C21: the crawl takes URLs from the front of the queue and puts new ones at its
\* end, a URL taken from the queue that is in the visited set is dropped without a
\* robots check or a request, no URL is requested twice in one crawl, and on the
\* finite web the crawl returns, with the result set at the cap or the queue empty.
C21_FifoOnceTerminates ==
    /\ [][(pc = "crawling" /\ pc' = "crawling")
            => /\ Len(to_visit') >= Len(to_visit) - 1
               /\ SubSeq(to_visit', 1, Len(to_visit) - 1) = Tail(to_visit)
               /\ crawl_log' # crawl_log
                     => /\ Len(crawl_log') = Len(crawl_log) + 1
                        /\ crawl_log'[Len(crawl_log')].url = Head(to_visit)
                        /\ SubSeq(crawl_log', 1, Len(crawl_log)) = crawl_log
               /\ Head(to_visit) \in seen
                     => (crawl_log' = crawl_log /\ seen' = seen
                          /\ article_links' = article_links)]_vars
    /\ [](\A i, j \in DOMAIN crawl_log : crawl_log[i].url = crawl_log[j].url => i = j)
    /\ [][(pc = "crawling" /\ pc' # "crawling")
            => /\ pc' = "loop"
               /\ (to_visit = <<>> \/ Cardinality(article_links) >= MAX_ARTICLE_URLS)]_vars
    /\ (pc = "crawling" ~> pc = "loop")

\* A crawl that ended with the queue empty and the result set under the cap, after
\* a page was fetched and a URL queued twice was dropped the second time.
C21_Witness ==
    /\ pc = "loop" /\ idx = 1
    /\ Len(links) < MAX_ARTICLE_URLS
    /\ \E i \in DOMAIN crawl_log : crawl_log[i].url = Web.front /\ crawl_log[i].fetch = "ok"
    /\ \E i \in DOMAIN crawl_log : crawl_log[i].url = Web.staff
    /\ Len(crawl_log) < 1 + Len(seeds) + Len(Anchors(Web.front))

\* C22: whatever the order and overlap of the requests, every profile in the list
\* api_scrape returns for a request is one the run started by that request handed
\* to _atomic_write_json: none left in data.json by an earlier run, none written by
\* a run that overlaps.
OwnProfiles == UNION {Range(wlog[i].obj.profiles) : i \in DOMAIN wlog}

C22_AnswerIsOwnRun ==
    response.sent => Range(response.data) \subseteq OwnProfiles

====
